---- MODULE Spec2Model ----
(***************************************************************************)
(* A model of httprunner/loader.py: locating the project root, loading the *)
(* api folder, assembling testcases and resolving the references between   *)
(* test steps, api definitions and nested testcases.                       *)
(*                                                                         *)
(* Paths are sequences of components; an absolute path starts with the     *)
(* component "/" ("/w/a" is <<"/", "w", "a">>), a relative one does not    *)
(* ("tc/t1.yml" is <<"tc", "t1.yml">>), and "" is <<>>.                     *)
(***************************************************************************)
EXTENDS Integers, Sequences, FiniteSets, TLC

VARIABLES
    cwd,                \* os.getcwd()
    anchors,            \* the directories that hold a debugtalk.py
    files,              \* absolute path of an artifact file -> its content
    sys_modules,        \* the directory "debugtalk" was imported from, or <<>>
    project_mapping,    \* loader.project_mapping
    tests_def_mapping,  \* loader.tests_def_mapping
    heap,               \* the dict objects of api definitions, by address
    pc,                 \* position of the running top-level call
    call,               \* locals of the running top-level call
    result,             \* what the last finished top-level call gave
    loads,              \* number of top-level calls started so far
    calls,              \* what the running top-level call has called so far
    loc,                \* the running locate_file call
    input               \* the argument of a direct call of one function

vars == <<cwd, anchors, files, sys_modules, project_mapping, tests_def_mapping,
          heap, pc, call, result, loads, calls, loc, input>>

fsVars == <<cwd, anchors, files, input>>
loaderVars == <<sys_modules, project_mapping, tests_def_mapping, heap, pc,
                call, result, loads, calls>>

(***************************************************************************)
(* Bounds                                                                  *)
(***************************************************************************)
MaxLoads == 2       \* top-level load calls per behaviour
MaxBlocks == 3      \* blocks of a drawn testcase
MaxApiBlocks == 2   \* blocks of a drawn api file
MaxLocustBlocks == 3 \* blocks of a drawn locust file
MaxWeight == 2      \* largest weight of a locust test block
MaxDepth == 3       \* nesting depth of testcase references that is followed
MaxMut == 1         \* dicts a consumer of the result mutates

(***************************************************************************)
(* The file system                                                         *)
(***************************************************************************)
Root == <<"/">>
W == <<"/", "w">>
ProjA == <<"/", "w", "a">>
ProjB == <<"/", "w", "b">>
Outside == <<"/", "o">>

Dirs == {Root, W, ProjA, ProjA \o <<"tc">>, ProjA \o <<"api">>,
         ProjB, ProjB \o <<"tc">>, Outside}

Front(s) == SubSeq(s, 1, Len(s) - 1)
Last(s) == s[Len(s)]

IsPrefix(p, q) == Len(p) <= Len(q) /\ SubSeq(q, 1, Len(p)) = p

isabs(p) == p # <<>> /\ p[1] = "/"

join(a, b) == IF isabs(b) THEN b ELSE a \o b

dirname(p) == IF p = <<>> \/ p = Root THEN p ELSE Front(p)

abspath(p) == IF isabs(p) THEN p ELSE cwd \o p

IsFileAbs(p) ==
    \/ p \in DOMAIN files
    \/ Len(p) > 1 /\ Last(p) = "debugtalk.py" /\ Front(p) \in anchors

isfile(p) == p # <<>> /\ IsFileAbs(abspath(p))

isdir(p) == p # <<>> /\ abspath(p) \in Dirs

exists(p) == isfile(p) \/ isdir(p)

(***************************************************************************)
(* locate_file                                                             *)
(***************************************************************************)
\* locate_file once start_dir_path is known: the file is there, or the search
\* ends at the working directory or the root, or goes on in the parent.
LocateFrom(start_path, start_dir_path, file_name) ==
    IF isfile(join(start_dir_path, <<file_name>>))
    THEN [tag |-> "return", path |-> abspath(join(start_dir_path, <<file_name>>)),
          dir |-> abspath(start_dir_path)]
    ELSE IF abspath(start_dir_path) \in {cwd, Root}
    THEN [tag |-> "raise", path |-> start_path, dir |-> abspath(start_dir_path)]
    ELSE [tag |-> "recurse", path |-> dirname(start_dir_path),
          dir |-> abspath(start_dir_path)]

\* One invocation of locate_file: it returns, raises FileNotFound, or calls
\* itself on the parent of the directory it looked into (dir).
LocateBody(start_path, file_name) ==
    IF isfile(start_path)
    THEN LocateFrom(start_path, dirname(start_path), file_name)
    ELSE IF isdir(start_path)
    THEN LocateFrom(start_path, start_path, file_name)
    ELSE [tag |-> "raise", path |-> start_path, dir |-> <<>>]

RECURSIVE locate_file(_, _)
locate_file(start_path, file_name) ==
    LET r == LocateBody(start_path, file_name)
    IN  IF r.tag = "recurse" THEN locate_file(r.path, file_name) ELSE r

(***************************************************************************)
(* Values                                                                  *)
(*                                                                         *)
(* A dict is a function from its keys.  A scalar or list value of a config *)
(* is a sequence of strings, like a path.  A test step is a record: "has"  *)
(* is the set of keys the dict holds, the other fields are the values of   *)
(* the keys the loader reads or writes.  A block {key: value} of a file is *)
(* a record: "good" says that the value is a dict.                         *)
(***************************************************************************)
EmptyDict == [k \in {} |-> <<>>]

NoneId == "<None>"      \* api_dict.get("id") of a dict without "id"

NoStep == [has |-> {}, name |-> "", api |-> "", testcase |-> <<>>,
           weight |-> 1, api_def |-> <<>>, testcase_def |-> <<>>]

NoApi == [id |-> NoneId, val |-> <<>>, req |-> <<>>]

ConfigBlock(c) == [key |-> "config", good |-> TRUE, cfg |-> c,
                   step |-> NoStep, api |-> NoApi]
TestBlock(s) == [key |-> "test", good |-> TRUE, cfg |-> EmptyDict,
                 step |-> s, api |-> NoApi]
ApiBlock(a) == [key |-> "api", good |-> TRUE, cfg |-> EmptyDict,
                step |-> NoStep, api |-> a]
OtherBlock == [key |-> "other", good |-> TRUE, cfg |-> EmptyDict,
               step |-> NoStep, api |-> NoApi]
\* {"test": "abc"}: one key, and a value that is no dict
BadBlock == [key |-> "test", good |-> FALSE, cfg |-> EmptyDict,
             step |-> NoStep, api |-> NoApi]

DirectStep(n) == [NoStep EXCEPT !.has = {"name"}, !.name = n]
ApiStep(n, id) == [NoStep EXCEPT !.has = {"name", "api"}, !.name = n, !.api = id]
TestcaseStep(n, p) ==
    [NoStep EXCEPT !.has = {"name", "testcase"}, !.name = n, !.testcase = p]

\* The content of a file: ok is FALSE for a content that does not parse or
\* is no list or dict; a list without blocks is an empty content.
Content(b) == [ok |-> TRUE, blocks |-> b]
BadContent == [ok |-> FALSE, blocks |-> <<>>]

\* What a function returned: the global state it left behind, its value, and
\* the exception it raised ("" for none).
Ret(st, v) == [st |-> st, val |-> v, exc |-> ""]
Raise(st, e) == [st |-> st, val |-> <<>>, exc |-> e]

Count(f, k) == IF k \in DOMAIN f THEN f[k] ELSE 0
Bump(f, k) == (k :> (Count(f, k) + 1)) @@ f

(***************************************************************************)
(* file loader                                                             *)
(***************************************************************************)
YamlNames == {"t1.yml", "t2.yml", "sub.yml", "f1.yml", "f2.yml"}

\* os.walk from the root: the files of a directory, then its subdirectories.
WalkOrder == <<W \o <<"notes.txt">>,
               ProjA \o <<".env">>, ProjA \o <<"sub.yml">>,
               ProjA \o <<"api", "f1.yml">>, ProjA \o <<"api", "f2.yml">>,
               ProjA \o <<"tc", "t1.yml">>, ProjA \o <<"tc", "t2.yml">>,
               ProjB \o <<"tc", "t1.yml">> >>

\* _check_format: the content is not empty, and it is a list or a dict
check_format(content) == content.ok /\ content.blocks # <<>>

load_file(file_path, st) ==
    LET st1 == [st EXCEPT !.calls.file = Bump(@, file_path)]
    IN  IF ~isfile(file_path) THEN Raise(st1, "FileNotFound")
        ELSE IF Last(file_path) \in YamlNames
        THEN IF check_format(files[abspath(file_path)])
             THEN Ret(st1, files[abspath(file_path)].blocks)
             ELSE Raise(st1, "FileFormatError")
        ELSE Ret(st1, <<>>)

load_folder_files(folder_path) ==
    IF ~exists(folder_path) THEN <<>>
    ELSE SelectSeq(WalkOrder,
                   LAMBDA p : /\ p \in DOMAIN files
                              /\ IsPrefix(abspath(folder_path), Front(p))
                              /\ Last(p) \in YamlNames)

(***************************************************************************)
(* testcase loader                                                         *)
(***************************************************************************)
\* copy.deepcopy of the dict at address a: the dict and the dict it holds
\* are both copied to new addresses.
deepcopy_dict(a, st) ==
    LET h == st.heap
        n == Len(h)
    IN  IF h[a].ref = 0
        THEN Ret([st EXCEPT !.heap = Append(h, h[a])], n + 1)
        ELSE Ret([st EXCEPT !.heap =
                     Append(Append(h, h[h[a].ref]), [h[a] EXCEPT !.ref = n + 1])],
                 n + 2)

\* get_api_definition without the copy: the cached dict itself is handed out
get_api_definition_shared(name, st) ==
    IF name \in DOMAIN st.tdm.api
    THEN Ret(st, st.tdm.api[name])
    ELSE Raise(st, "ApiNotFound")

get_api_definition(name, st) ==
    IF name \in DOMAIN st.tdm.api
    THEN deepcopy_dict(st.tdm.api[name], st)
    ELSE Raise(st, "ApiNotFound")

RECURSIVE load_teststep(_, _, _)
RECURSIVE load_testcase_from(_, _, _, _, _, _)

load_testcase(raw_testcase, st, depth) ==
    load_testcase_from(raw_testcase, 1, EmptyDict, <<>>, st, depth)

\* raw_stepinfo[key] = (what r returned), unless r raised
attach(raw_stepinfo, key, r) ==
    IF r.exc # "" THEN r
    ELSE Ret(r.st,
             IF key = "api_def"
             THEN [raw_stepinfo EXCEPT !.has = @ \cup {key}, !.api_def = <<r.val>>]
             ELSE [raw_stepinfo EXCEPT !.has = @ \cup {key},
                                       !.testcase_def = <<r.val>>])

\* tests_def_mapping[testcase_path] = testcase_dict, once load_testcase
\* returned t
memoize(testcase_path, t) ==
    IF t.exc # "" THEN t
    ELSE [t EXCEPT !.st.tdm.paths = (testcase_path :> t.val) @@ @,
                   !.st.calls.memo = Bump(@, testcase_path)]

\* load_testcase(load_file(testcase_path)): f is what load_file gave; a
\* nesting deeper than the depth that is followed ends in RecursionError.
load_nested(f, depth) ==
    IF f.exc # "" THEN f
    ELSE IF depth = 0 THEN Raise(f.st, "RecursionError")
    ELSE load_testcase(f.val, f.st, depth - 1)

\* reference_testcase with a cycle guard: the lookup uses the joined path,
\* and an entry for the path is stored before the nested load starts
reference_testcase_memo_first(testcase_path, st, depth) ==
    IF "PWD" \notin DOMAIN st.pm THEN Raise(st, "KeyError")
    ELSE IF join(st.pm["PWD"], testcase_path) \in DOMAIN st.tdm.paths
    THEN Ret(st, st.tdm.paths[join(st.pm["PWD"], testcase_path)])
    ELSE memoize(join(st.pm["PWD"], testcase_path),
                 load_nested(
                     load_file(join(st.pm["PWD"], testcase_path),
                               [st EXCEPT
                                  !.tdm.paths =
                                     (join(st.pm["PWD"], testcase_path) :>
                                        [config |-> EmptyDict, teststeps |-> <<>>])
                                     @@ @,
                                  !.calls.ref =
                                     Bump(@, join(st.pm["PWD"], testcase_path))]),
                     depth))

\* The "reference testcase" branch of load_teststep
reference_testcase(testcase_path, st, depth) ==
    IF testcase_path \notin DOMAIN st.tdm.testcases
    THEN IF "PWD" \notin DOMAIN st.pm THEN Raise(st, "KeyError")
         ELSE memoize(join(st.pm["PWD"], testcase_path),
                      load_nested(
                          load_file(join(st.pm["PWD"], testcase_path),
                                    [st EXCEPT !.calls.ref =
                                        Bump(@, join(st.pm["PWD"], testcase_path))]),
                          depth))
    ELSE IF testcase_path \in DOMAIN st.tdm.paths
    THEN Ret(st, st.tdm.paths[testcase_path])
    ELSE Raise(st, "KeyError")

\* resolve with the testcase reference looked at before the api reference
resolve_testcase_first(raw_stepinfo, st, depth) ==
    IF "testcase" \in raw_stepinfo.has
    THEN attach(raw_stepinfo, "testcase_def",
                reference_testcase(raw_stepinfo.testcase, st, depth))
    ELSE IF "api" \in raw_stepinfo.has
    THEN attach(raw_stepinfo, "api_def", get_api_definition(raw_stepinfo.api, st))
    ELSE Ret(st, raw_stepinfo)

\* The branches of load_teststep; st counts this call.
resolve(raw_stepinfo, st, depth) ==
    IF "api" \in raw_stepinfo.has
    THEN attach(raw_stepinfo, "api_def", get_api_definition(raw_stepinfo.api, st))
    ELSE IF "func" \in raw_stepinfo.has
    THEN Ret(st, raw_stepinfo)
    ELSE IF "testcase" \in raw_stepinfo.has
    THEN attach(raw_stepinfo, "testcase_def",
                reference_testcase(raw_stepinfo.testcase, st, depth))
    ELSE Ret(st, raw_stepinfo)

load_teststep(raw_stepinfo, st, depth) ==
    resolve(raw_stepinfo, [st EXCEPT !.calls.step = @ + 1], depth)

\* config.update(test_block) with the keys already in config kept
update_keep(config, test_block) == config @@ test_block

\* config.update(test_block)
update(config, test_block) == test_block @@ config

\* The loop of load_testcase from block i on.
load_testcase_from(raw_testcase, i, config, teststeps, st, depth) ==
    IF i > Len(raw_testcase)
    THEN Ret(st, [config |-> config, teststeps |-> teststeps])
    ELSE LET item == raw_testcase[i]
         IN  IF ~item.good THEN Raise(st, "FileFormatError")
             ELSE IF item.key = "config"
             THEN load_testcase_from(raw_testcase, i + 1, update(config, item.cfg),
                                     teststeps, st, depth)
             ELSE IF item.key = "test"
             THEN LET r == load_teststep(item.step, st, depth)
                  IN  IF r.exc # "" THEN r
                      ELSE load_testcase_from(raw_testcase, i + 1, config,
                                              Append(teststeps, r.val), r.st, depth)
             ELSE load_testcase_from(raw_testcase, i + 1, config, teststeps,
                                     st, depth)

\* load_folder_content: every file of the folder is parsed before any is used.
RECURSIVE load_folder_content(_, _, _, _)
load_folder_content(file_list, i, items, st) ==
    IF i > Len(file_list) THEN Ret(st, items)
    ELSE LET f == load_file(file_list[i], st)
         IN  IF f.exc # "" THEN f
             ELSE load_folder_content(file_list, i + 1, items \o f.val, f.st)

\* api_definition_mapping[api_id] = api_dict with an id already there kept
store_first(api_definition_mapping, api_id, a) ==
    api_definition_mapping @@ (api_id :> a)

\* api_definition_mapping[api_id] = api_dict
store(api_definition_mapping, api_id, a) ==
    (api_id :> a) @@ api_definition_mapping

\* The loop of load_api_folder over the blocks of the folder's files, in the
\* order of the files and, in a file, of its blocks.
RECURSIVE load_api_items(_, _, _, _)
load_api_items(api_items, i, api_definition_mapping, st) ==
    IF i > Len(api_items) THEN Ret(st, api_definition_mapping)
    ELSE LET api_item == api_items[i]
             api_id == IF api_item.key = "api" THEN api_item.api.id ELSE NoneId
             n == Len(st.heap)
             request == [id |-> "", val |-> api_item.api.req, ref |-> 0]
             api_dict == [id |-> api_id, val |-> api_item.api.val, ref |-> n + 1]
         IN  IF ~api_item.good THEN Raise(st, "AttributeError")
             ELSE load_api_items(api_items, i + 1,
                     store(api_definition_mapping, api_id, n + 2),
                     [st EXCEPT !.heap = Append(Append(@, request), api_dict)])

load_api_folder(api_folder_path, st) ==
    LET c == load_folder_content(load_folder_files(api_folder_path), 1, <<>>, st)
    IN  IF c.exc # "" THEN c
        ELSE load_api_items(c.val, 1, EmptyDict, c.st)

load_dot_env_file(dot_env_path, st) ==
    IF ~isfile(dot_env_path) THEN Ret(st, EmptyDict)
    ELSE IF ~files[abspath(dot_env_path)].ok THEN Raise(st, "FileFormatError")
    ELSE Ret(st, "dotenv" :> abspath(dot_env_path))

\* importlib.import_module("debugtalk") with the project directory first in
\* sys.path: a module imported before is returned from sys.modules.
load_debugtalk_functions(project_working_directory, st) ==
    IF st.mods = <<>>
    THEN Ret([st EXCEPT !.mods = project_working_directory],
             "debugtalk" :> project_working_directory)
    ELSE Ret(st, "debugtalk" :> st.mods)

\* load_debugtalk_py once locate_file returned (l.tag = "return") or raised
debugtalk_located(l, st) ==
    IF l.tag = "return"
    THEN [load_debugtalk_functions(dirname(l.path), st)
            EXCEPT !.val = [PWD |-> dirname(l.path), functions |-> @]]
    ELSE Ret(st, [PWD |-> cwd, functions |-> EmptyDict])

load_debugtalk_py(start_path, st) ==
    debugtalk_located(locate_file(start_path, "debugtalk.py"), st)

\* tests_def_mapping["api"] = (what load_api_folder returned)
project_done(a) ==
    IF a.exc # "" THEN a ELSE Ret([a.st EXCEPT !.tdm.api = a.val], <<>>)

\* project_api without the load of the api folder
project_api_skipped(project_working_directory, e) ==
    IF e.exc # "" THEN e
    ELSE Ret([e.st EXCEPT !.pm = ("env" :> e.val) @@ @], <<>>)

\* load_project_tests from "load api" on: e is what load_dot_env_file gave
project_api(project_working_directory, e) ==
    IF e.exc # "" THEN e
    ELSE project_done(load_api_folder(join(project_working_directory, <<"api">>),
                                      [e.st EXCEPT !.pm = ("env" :> e.val) @@ @]))

\* load_project_tests from "load .env" on: d is what load_debugtalk_py gave
project_env(d) ==
    project_api(d.val.PWD,
                load_dot_env_file(join(d.val.PWD, <<".env">>),
                    [d.st EXCEPT !.pm = ("PWD" :> d.val.PWD) @@
                                        ("functions" :> d.val.functions) @@ @,
                                 !.calls.project = @ + 1]))

load_project_tests(test_path, st) == project_env(load_debugtalk_py(test_path, st))

(***************************************************************************)
(* The top-level calls                                                     *)
(***************************************************************************)
St == [pm |-> project_mapping, tdm |-> tests_def_mapping, heap |-> heap,
       mods |-> sys_modules, calls |-> calls]

Commit(st) ==
    /\ project_mapping' = st.pm
    /\ tests_def_mapping' = st.tdm
    /\ heap' = st.heap
    /\ sys_modules' = st.mods
    /\ calls' = st.calls

\* Nothing called yet.  file: the calls of load_file, by path; ref: those made
\* by load_teststep; memo: the testcases load_teststep stored, by path; step
\* and project: the calls of load_teststep and of load_project_tests.
NoCalls == [file |-> EmptyDict, ref |-> EmptyDict, memo |-> EmptyDict,
            step |-> 0, project |-> 0]

NoCall == [name |-> "", path |-> <<>>, files_list |-> <<>>, i |-> 0,
           testcases_list |-> <<>>, raw |-> <<>>]

\* What a top-level call gave: it returned val (status "ok") or raised the
\* exception status, at the position at.
Result(op, arg, at, status, val) ==
    [op |-> op, arg |-> arg, at |-> at, status |-> status, val |-> val]

NoResult == Result("", <<>>, "", "", <<>>)

\* The running call ends: it returned val, or raised the exception status.
Finish(status, val) ==
    /\ result' = Result(call.name, call.path, pc, status, val)
    /\ pc' = "idle"
    /\ call' = NoCall

\* load_tests, to the call of load_project_tests
CallLoadTests(path) ==
    /\ pc = "idle"
    /\ loads < MaxLoads
    /\ loads' = loads + 1
    /\ calls' = NoCalls
    /\ IF ~exists(path)
       THEN /\ result' = Result("load_tests", path, "idle", "FileNotFound", <<>>)
            /\ UNCHANGED <<pc, call>>
       ELSE /\ result' = NoResult
            /\ pc' = "project"
            /\ call' = [NoCall EXCEPT !.name = "load_tests",
                                      !.path = IF isabs(path) THEN path
                                               ELSE join(cwd, path)]
    /\ UNCHANGED <<fsVars, sys_modules, project_mapping, tests_def_mapping,
                   heap, loc>>

\* load_project_tests, called by load_tests and by load_locust_tests
LoadProjectTests ==
    /\ pc = "project"
    /\ LET r == load_project_tests(call.path, St)
       IN  /\ Commit(r.st)
           /\ IF r.exc # "" THEN Finish(r.exc, <<>>)
              ELSE /\ pc' = IF call.name = "load_tests" THEN "files" ELSE "locust"
                   /\ call' = [call EXCEPT
                         !.files_list = IF isdir(call.path)
                                        THEN load_folder_files(call.path)
                                        ELSE IF isfile(call.path)
                                        THEN <<call.path>> ELSE <<>>,
                         !.i = 1]
                   /\ UNCHANGED result
    /\ UNCHANGED <<fsVars, loads, loc>>

\* tag_path with the folder of the file in place of the file
tag_path_folder(testcase, path) ==
    [testcase EXCEPT !.config = ("path" :> dirname(path)) @@ @]

\* testcase["config"]["path"] = path
tag_path(testcase, path) == [testcase EXCEPT !.config = ("path" :> path) @@ @]

\* load_tests.load_test_file on the next file, and what the loop does with it
LoadTestFile ==
    /\ pc = "files"
    /\ call.i <= Len(call.files_list)
    /\ LET path == call.files_list[call.i]
           f == load_file(path, St)
           t == load_testcase(f.val, f.st, MaxDepth)
           testcase == tag_path(t.val, path)
       IN  IF f.exc # ""
           THEN Commit(f.st) /\ Finish(f.exc, <<>>)
           ELSE /\ Commit(t.st)
                /\ IF t.exc = "FileFormatError"
                   THEN /\ call' = [call EXCEPT !.i = @ + 1]
                        /\ UNCHANGED <<pc, result>>
                   ELSE IF t.exc # ""
                   THEN Finish(t.exc, <<>>)
                   ELSE /\ call' = [call EXCEPT
                              !.i = @ + 1,
                              !.testcases_list = Append(@, testcase)]
                        /\ UNCHANGED <<pc, result>>
    /\ UNCHANGED <<fsVars, loads, loc>>

ReturnLoadTests ==
    /\ pc = "files"
    /\ call.i > Len(call.files_list)
    /\ Finish("ok", call.testcases_list)
    /\ UNCHANGED <<fsVars, sys_modules, project_mapping, tests_def_mapping,
                   heap, loads, calls, loc>>

\* load_locust_tests, to the call of load_project_tests
CallLoadLocustTests(path) ==
    /\ pc = "idle"
    /\ loads < MaxLoads
    /\ loads' = loads + 1
    /\ LET f == load_file(path, [St EXCEPT !.calls = NoCalls])
       IN  /\ Commit(f.st)
           /\ IF f.exc # ""
              THEN /\ result' = Result("load_locust_tests", path, "idle", f.exc, <<>>)
                   /\ UNCHANGED <<pc, call>>
              ELSE /\ result' = NoResult
                   /\ pc' = "project"
                   /\ call' = [NoCall EXCEPT !.name = "load_locust_tests",
                                             !.path = path, !.raw = f.val]
    /\ UNCHANGED <<fsVars, loc>>

\* The step appended once, whatever its weight
extend_once(tests, teststep, weight) == Append(tests, teststep)

\* for _ in range(weight): tests.append(teststep)
RECURSIVE extend_weight(_, _, _)
extend_weight(tests, teststep, weight) ==
    IF weight <= 0 THEN tests
    ELSE extend_weight(Append(tests, teststep), teststep, weight - 1)

\* The loop of load_locust_tests from block i on.
RECURSIVE load_locust_from(_, _, _, _, _)
load_locust_from(raw_testcase, i, config, tests, st) ==
    IF i > Len(raw_testcase)
    THEN Ret(st, [config |-> config, tests |-> tests])
    ELSE LET item == raw_testcase[i]
             r == load_teststep(item.step, st, MaxDepth)
             weight == IF "weight" \in item.step.has THEN item.step.weight ELSE 1
         IN  IF ~item.good THEN Raise(st, "AttributeError")
             ELSE IF item.key = "config"
             THEN load_locust_from(raw_testcase, i + 1, update(config, item.cfg),
                                   tests, st)
             ELSE IF item.key = "test"
             THEN IF r.exc # "" THEN r
                  ELSE load_locust_from(raw_testcase, i + 1, config,
                                        extend_weight(tests, r.val, weight), r.st)
             ELSE load_locust_from(raw_testcase, i + 1, config, tests, st)

\* parser.parse_data on a value that holds no $variable and no ${function()}
parse_data(content, variables_mapping, functions_mapping) == content

Get(d, k, default) == IF k \in DOMAIN d THEN d[k] ELSE default

\* load_locust_tests after load_project_tests: the loop, then the config
LocustAssemble ==
    /\ pc = "locust"
    /\ LET r == load_locust_from(call.raw, 1, EmptyDict, <<>>, St)
           functions == project_mapping["functions"]
           config_variables == parse_data(Get(r.val.config, "variables", <<>>),
                                          EmptyDict, functions)
           name == parse_data(Get(r.val.config, "name", <<>>),
                              config_variables, functions)
           request == parse_data(Get(r.val.config, "request", <<>>),
                                 config_variables, functions)
       IN  /\ Commit(r.st)
           /\ IF r.exc # "" THEN Finish(r.exc, <<>>)
              ELSE Finish("ok", [config |-> ("request" :> request) @@
                                            ("name" :> name) @@ r.val.config,
                                 tests |-> r.val.tests])
    /\ UNCHANGED <<fsVars, loads, loc>>

\* A direct call load_teststep(input.step)
CallLoadTeststep ==
    /\ pc = "idle"
    /\ loads < MaxLoads
    /\ loads' = loads + 1
    /\ input.kind = "step"
    /\ LET r == load_teststep(input.step, [St EXCEPT !.calls = NoCalls], MaxDepth)
       IN  /\ Commit(r.st)
           /\ result' = Result("load_teststep", input.step, "idle",
                               IF r.exc = "" THEN "ok" ELSE r.exc, r.val)
    /\ UNCHANGED <<fsVars, pc, call, loc>>

\* A direct call load_testcase(input.raw)
CallLoadTestcase ==
    /\ pc = "idle"
    /\ loads < MaxLoads
    /\ loads' = loads + 1
    /\ input.kind = "testcase"
    /\ LET r == load_testcase(input.raw, [St EXCEPT !.calls = NoCalls], MaxDepth)
       IN  /\ Commit(r.st)
           /\ result' = Result("load_testcase", input.raw, "idle",
                               IF r.exc = "" THEN "ok" ELSE r.exc, r.val)
    /\ UNCHANGED <<fsVars, pc, call, loc>>

(***************************************************************************)
(* locate_file, one invocation at a time                                   *)
(***************************************************************************)
NoLoc == [status |-> "", start |-> <<>>, arg |-> <<>>, ret |-> <<>>,
          inspected |-> <<>>]

\* A direct call locate_file(input.path, "debugtalk.py")
CallLocateFile ==
    /\ pc = "idle"
    /\ loc.status # "running"
    /\ input.kind = "path"
    /\ loads < MaxLoads
    /\ loads' = loads + 1
    /\ loc' = [NoLoc EXCEPT !.status = "running", !.start = input.path,
                          !.arg = input.path]
    /\ UNCHANGED <<fsVars, sys_modules, project_mapping, tests_def_mapping,
                   heap, pc, call, result, calls>>

LocateStep ==
    /\ loc.status = "running"
    /\ LET r == LocateBody(loc.arg, "debugtalk.py")
           seen == IF r.dir = <<>> THEN loc.inspected
                   ELSE Append(loc.inspected, r.dir)
       IN  loc' = IF r.tag = "return"
                  THEN [loc EXCEPT !.status = "returned", !.ret = r.path,
                                   !.inspected = seen]
                  ELSE IF r.tag = "raise"
                  THEN [loc EXCEPT !.status = "FileNotFound", !.inspected = seen]
                  ELSE [loc EXCEPT !.arg = r.path, !.inspected = seen]
    /\ UNCHANGED <<fsVars, loaderVars>>

(***************************************************************************)
(* The consumer of a result                                                *)
(***************************************************************************)
\* The api_def of every step of a testcase, the steps of the testcases it
\* references included: the id each was resolved for and its address.
RECURSIVE ApiDefsOfSteps(_, _)
ApiDefsOfSteps(teststeps, i) ==
    IF i > Len(teststeps) THEN <<>>
    ELSE LET s == teststeps[i]
         IN  (IF s.api_def # <<>>
              THEN <<[id |-> s.api, addr |-> s.api_def[1]]>> ELSE <<>>)
             \o (IF s.testcase_def # <<>>
                 THEN ApiDefsOfSteps(s.testcase_def[1].teststeps, 1) ELSE <<>>)
             \o ApiDefsOfSteps(teststeps, i + 1)

RECURSIVE ApiDefsOfCases(_, _)
ApiDefsOfCases(testcases, i) ==
    IF i > Len(testcases) THEN <<>>
    ELSE ApiDefsOfSteps(testcases[i].teststeps, 1) \o ApiDefsOfCases(testcases, i + 1)

\* The api_def dicts attached to the steps of the last result of load_tests
Attached ==
    IF result.op = "load_tests" /\ result.status = "ok"
    THEN ApiDefsOfCases(result.val, 1) ELSE <<>>

Mutated == {a \in 1..Len(heap) : heap[a].val = <<"mutated">>}

\* Downstream code (variable substitution, request building) writes into one
\* attached api_def: into the dict itself, or into the dict it holds.
Mutate(i, nested) ==
    /\ pc = "idle"
    /\ i \in 1..Len(Attached)
    /\ Cardinality(Mutated) < MaxMut
    /\ LET a == Attached[i].addr
           target == IF nested THEN heap[a].ref ELSE a
       IN  /\ target # 0
           /\ heap[target].val # <<"mutated">>
           /\ heap' = [heap EXCEPT ![target].val = <<"mutated">>]
    /\ UNCHANGED <<fsVars, sys_modules, project_mapping, tests_def_mapping,
                   pc, call, result, loads, calls, loc>>

(***************************************************************************)
(* Specifications                                                          *)
(***************************************************************************)
\* The argument of a direct call: a raw step, raw blocks, or a path.
NoInput == [kind |-> "", step |-> NoStep, raw |-> <<>>, path |-> <<>>]

OptFile(p, c) == IF c = <<>> THEN EmptyDict ELSE (p :> c[1])

InitLoader ==
    /\ sys_modules = <<>>
    /\ project_mapping = EmptyDict
    /\ tests_def_mapping = [api |-> EmptyDict, testcases |-> EmptyDict,
                            paths |-> EmptyDict]
    /\ heap = <<>>
    /\ pc = "idle"
    /\ call = NoCall
    /\ result = NoResult
    /\ loads = 0
    /\ calls = NoCalls
    /\ loc = NoLoc

ApiA1 == [id |-> "a1", val |-> <<"v1">>, req |-> <<"u1">>]

\* A project a with an api folder, one or two testcase files in a/tc and a
\* testcase a/sub.yml that they may reference; a project b beside it.
T1Choices ==
    { <<Content(<<ConfigBlock("name" :> <<"x">>), TestBlock(ApiStep("s1", "a1")),
                  TestBlock(ApiStep("s2", "a1"))>>)>>,
      <<Content(<<TestBlock(TestcaseStep("s1", <<"sub.yml">>)),
                  TestBlock(TestcaseStep("s2", <<"sub.yml">>))>>)>>,
      <<BadContent>>,
      <<Content(<<BadBlock>>)>>,
      <<Content(<<TestBlock(ApiStep("s1", "nope"))>>)>> }

T2Choices ==
    { <<>>,
      <<Content(<<ConfigBlock("name" :> <<"y">>), TestBlock(DirectStep("d"))>>)>>,
      <<BadContent>> }

SubChoices ==
    { <<>>,
      <<Content(<<TestBlock(ApiStep("n1", "a1"))>>)>>,
      <<Content(<<BadBlock>>)>>,
      <<Content(<<TestBlock(TestcaseStep("r", <<"sub.yml">>))>>)>> }

Init ==
    /\ cwd = W
    /\ anchors \in {{ProjA, ProjB}, {ProjA}, {}}
    /\ \E t1 \in T1Choices, t2 \in T2Choices, sub \in SubChoices :
          files = (ProjA \o <<".env">> :> Content(<<>>))
                  @@ (ProjA \o <<"api", "f1.yml">> :> Content(<<ApiBlock(ApiA1)>>))
                  @@ (ProjB \o <<"tc", "t1.yml">> :>
                         Content(<<TestBlock(DirectStep("b"))>>))
                  @@ OptFile(ProjA \o <<"tc", "t1.yml">>, t1)
                  @@ OptFile(ProjA \o <<"tc", "t2.yml">>, t2)
                  @@ OptFile(ProjA \o <<"sub.yml">>, sub)
    /\ input = NoInput
    /\ InitLoader

LoadPaths == {ProjA \o <<"tc">>, ProjB \o <<"tc">>, <<"a", "tc", "t1.yml">>,
              <<"nowhere">>}

Next ==
    \/ \E path \in LoadPaths : CallLoadTests(path)
    \/ LoadProjectTests
    \/ LoadTestFile
    \/ ReturnLoadTests
    \/ \E i \in 1..3, nested \in BOOLEAN : Mutate(i, nested)

Spec == Init /\ [][Next]_vars

(***************************************************************************)
(* Properties of load_tests                                                *)
(***************************************************************************)
LoadTestsEnded == result.op = "load_tests" /\ result.at = "files"
LoadTestsReturned == result.op = "load_tests" /\ result.status = "ok"

\* The files load_tests discovers in the directory it was given.
Discovered == load_folder_files(result.arg)

RECURSIVE WellFormedFile(_, _)

\* A step that load_teststep can resolve in the loaded project.
Resolvable(step, depth) ==
    IF "api" \in step.has THEN step.api \in DOMAIN tests_def_mapping.api
    ELSE IF "func" \in step.has THEN TRUE
    ELSE IF "testcase" \in step.has
    THEN /\ depth > 0
         /\ WellFormedFile(join(project_mapping["PWD"], step.testcase), depth - 1)
    ELSE TRUE

\* A well-formed artifact file: it exists and parses, each block is a
\* single-key mapping of a mapping, and each test step of it can be resolved.
WellFormedFile(p, depth) ==
    /\ isfile(p)
    /\ p \in DOMAIN files
    /\ check_format(files[p])
    /\ \A i \in 1..Len(files[p].blocks) :
          /\ files[p].blocks[i].good
          /\ files[p].blocks[i].key = "test"
                => Resolvable(files[p].blocks[i].step, depth)

TestBlocks(blocks) == SelectSeq(blocks, LAMBDA b : b.key = "test")

\* C1: within one load, a path that testcase-reference steps name is parsed
\* and assembled by load_teststep exactly once; the later steps reuse the
\* memoized testcase.
C1_ReferencedFileParsedOnce ==
    LoadTestsReturned
        => \A p \in DOMAIN calls.memo : calls.ref[p] = 1 /\ calls.memo[p] = 1

\* C2: the api_def attached to a step is a copy of the cached definition and
\* shares no dict with it or with any other attached api_def: while it is not
\* written to it equals the cached definition, and the cached definition is
\* never written to.
Owned(a) == {a} \cup (IF heap[a].ref = 0 THEN {} ELSE {heap[a].ref})

DeepValue(a) == [id |-> heap[a].id, val |-> heap[a].val,
                 request |-> IF heap[a].ref = 0 THEN <<>> ELSE heap[heap[a].ref].val]

C2_AttachedApiDefIsOwnedCopy ==
    \A i \in 1..Len(Attached) :
       LET a == Attached[i].addr
           id == Attached[i].id
       IN  /\ id \in DOMAIN tests_def_mapping.api
           /\ Owned(a) \cap Owned(tests_def_mapping.api[id]) = {}
           /\ Owned(tests_def_mapping.api[id]) \cap Mutated = {}
           /\ \A j \in 1..Len(Attached) :
                 j # i => Owned(a) \cap Owned(Attached[j].addr) = {}
           /\ Owned(a) \cap Mutated = {}
                 => DeepValue(a) = DeepValue(tests_def_mapping.api[id])

\* Two steps resolved for the same id; the consumer wrote into the api_def of
\* one of them.
C2_Witness ==
    \E i, j \in 1..Len(Attached) :
       /\ i # j
       /\ Attached[i].id = Attached[j].id
       /\ Owned(Attached[i].addr) \cap Mutated # {}
       /\ DeepValue(Attached[j].addr) = DeepValue(tests_def_mapping.api[Attached[j].id])

\* C3: load_tests on a directory never ends with an error once the project
\* is loaded: a file that does not parse or does not assemble is skipped, and
\* every well-formed file of the directory is in the testcases returned.
C3_BadFileIsSkipped ==
    (LoadTestsEnded /\ isdir(result.arg))
        => /\ result.status = "ok"
           /\ \A k \in 1..Len(Discovered) :
                 WellFormedFile(Discovered[k], MaxDepth)
                    => \E i \in 1..Len(result.val) :
                          result.val[i].config["path"] = Discovered[k]

\* C4: load_tests on a directory of well-formed files returns one testcase
\* per discovered file, in the order of discovery, each with the path of its
\* file in config["path"] and with one step per "test" block of that file.
C4_OneTestcasePerFile ==
    (/\ LoadTestsEnded
     /\ isdir(result.arg)
     /\ \A k \in 1..Len(Discovered) : WellFormedFile(Discovered[k], MaxDepth))
        => /\ result.status = "ok"
           /\ Len(result.val) = Len(Discovered)
           /\ \A k \in 1..Len(Discovered) :
                 /\ result.val[k].config["path"] = Discovered[k]
                 /\ Len(result.val[k].teststeps)
                       = Len(TestBlocks(files[Discovered[k]].blocks))

\* A directory of two well-formed files was loaded.
C4_Witness ==
    /\ LoadTestsReturned
    /\ isdir(result.arg)
    /\ Len(Discovered) = 2
    /\ \A k \in 1..Len(Discovered) : WellFormedFile(Discovered[k], MaxDepth)
    /\ Len(result.val) = 2

\* C5: when a load has returned, project_mapping and tests_def_mapping hold
\* only what this load produced: the functions of this project's debugtalk.py
\* and the testcases memoized during this load.
C5_NoStaleEntries ==
    LoadTestsReturned
        => /\ DOMAIN tests_def_mapping.paths \subseteq DOMAIN calls.memo
           /\ project_mapping["functions"] \in
                 {EmptyDict, "debugtalk" :> project_mapping["PWD"]}

(***************************************************************************)
(* Direct calls of load_teststep and load_testcase                         *)
(***************************************************************************)
SeqsUpTo(S, n) == UNION {[1..k -> S] : k \in 0..n}

\* Raw steps: every combination of the keys load_teststep looks at, with an
\* api id that is defined or not and a testcase path that exists or not.
RawSteps ==
    { [NoStep EXCEPT !.has = h, !.name = "s",
                     !.api = IF "api" \in h THEN id ELSE "",
                     !.testcase = IF "testcase" \in h THEN <<t>> ELSE <<>>] :
        h \in SUBSET {"name", "api", "func", "testcase"},
        id \in {"a1", "nope"}, t \in {"sub.yml", "gone.yml"} }

RawBlocks ==
    { ConfigBlock("name" :> <<"x">>),
      ConfigBlock(("name" :> <<"y">>) @@ ("variables" :> <<>>)),
      ConfigBlock("variables" :> <<"v">>),
      TestBlock(DirectStep("d1")),
      TestBlock(ApiStep("s1", "a1")),
      OtherBlock,
      BadBlock }

\* Project a: an api a1, a testcase sub.yml, one testcase file in a/tc.
FilesA ==
    (ProjA \o <<"api", "f1.yml">> :> Content(<<ApiBlock(ApiA1)>>))
    @@ (ProjA \o <<"sub.yml">> :> Content(<<TestBlock(DirectStep("n"))>>))
    @@ (ProjA \o <<"tc", "t1.yml">> :> Content(<<TestBlock(ApiStep("s1", "a1"))>>))

InitResolve ==
    /\ cwd = W
    /\ anchors = {ProjA}
    /\ files = FilesA
    /\ \/ \E s \in RawSteps : input = [NoInput EXCEPT !.kind = "step", !.step = s]
       \/ \E r \in SeqsUpTo(RawBlocks, MaxBlocks) :
             input = [NoInput EXCEPT !.kind = "testcase", !.raw = r]
    /\ InitLoader

NextResolve ==
    \/ CallLoadTests(ProjA \o <<"tc">>)
    \/ LoadProjectTests
    \/ LoadTestFile
    \/ ReturnLoadTests
    \/ CallLoadTeststep
    \/ CallLoadTestcase

SpecResolve == InitResolve /\ [][NextResolve]_vars

Refs(step) == step.has \cap {"api", "func", "testcase"}

\* C6: load_teststep applies one reference form, api before func before
\* testcase: a step with "api" gets a copy of the api definition as api_def
\* and nothing else, or ApiNotFound; a step with "func" and no "api" comes
\* back as it was; a step with only "testcase" gets testcase_def and nothing
\* else; a step with none of the keys comes back as it was.  No step comes
\* back with both api_def and testcase_def.
C6_OneReferenceForm ==
    result.op = "load_teststep" =>
       LET raw == result.arg
           step == result.val
       IN  /\ ("api" \notin raw.has /\ ("func" \in raw.has \/ Refs(raw) = {}))
                 => result.status = "ok" /\ step = raw
           /\ "api" \in raw.has => result.status \in {"ok", "ApiNotFound"}
           /\ ("api" \in raw.has /\ result.status = "ok")
                 => /\ step = [raw EXCEPT !.has = @ \cup {"api_def"},
                                          !.api_def = step.api_def]
                    /\ Len(step.api_def) = 1
                    /\ DeepValue(step.api_def[1])
                          = DeepValue(tests_def_mapping.api[raw.api])
           /\ (Refs(raw) = {"testcase"} /\ result.status = "ok")
                 => /\ step = [raw EXCEPT !.has = @ \cup {"testcase_def"},
                                          !.testcase_def = step.testcase_def]
                    /\ Len(step.testcase_def) = 1
           /\ result.status = "ok"
                 => ~({"api_def", "testcase_def"} \subseteq step.has)

\* A step with both "api" and "testcase" was resolved as an api reference.
C6_Witness ==
    /\ result.op = "load_teststep"
    /\ result.status = "ok"
    /\ {"api", "testcase"} \subseteq result.arg.has
    /\ "api_def" \in result.val.has

\* The value of key in the last "config" block of raw that holds it.
RECURSIVE LastConfig(_, _, _)
LastConfig(raw, i, key) ==
    IF raw[i].key = "config" /\ key \in DOMAIN raw[i].cfg
    THEN raw[i].cfg[key]
    ELSE LastConfig(raw, i - 1, key)

ConfigKeys(raw) ==
    UNION {DOMAIN raw[i].cfg : i \in {j \in 1..Len(raw) : raw[j].key = "config"}}

\* C7: load_testcase merges the "config" blocks from left to right (every
\* key of a config block is in the config, with the value of the last block
\* that holds it) and teststeps are the resolved "test" blocks in the order
\* of the file; blocks with another key add nothing.
C7_BlocksInFileOrder ==
    (result.op = "load_testcase" /\ result.status = "ok") =>
       LET raw == result.arg
           tests == TestBlocks(raw)
       IN  /\ DOMAIN result.val.config = ConfigKeys(raw)
           /\ \A k \in ConfigKeys(raw) :
                 result.val.config[k] = LastConfig(raw, Len(raw), k)
           /\ Len(result.val.teststeps) = Len(tests)
           /\ \A j \in 1..Len(tests) :
                 /\ result.val.teststeps[j].name = tests[j].step.name
                 /\ tests[j].step.has \subseteq result.val.teststeps[j].has

\* Two config blocks with the same key, then two different test blocks.
C7_Witness ==
    /\ result.op = "load_testcase"
    /\ result.status = "ok"
    /\ Len(result.arg) = 3
    /\ result.arg[1].key = "config"
    /\ result.arg[2].key = "config"
    /\ "name" \in DOMAIN result.arg[1].cfg \cap DOMAIN result.arg[2].cfg
    /\ result.arg[1].cfg # result.arg[2].cfg
    /\ result.arg[3].key = "test"

(***************************************************************************)
(* The api folder                                                          *)
(***************************************************************************)
ApiBlocks ==
    { ApiBlock(ApiA1),
      ApiBlock([id |-> "a1", val |-> <<"v2">>, req |-> <<"u2">>]),
      ApiBlock([id |-> NoneId, val |-> <<"v3">>, req |-> <<"u3">>]),
      BadBlock }

\* Project a with one or two api files of drawn blocks (a file without
\* blocks is an empty file).
InitApi ==
    /\ cwd = W
    /\ anchors = {ProjA}
    /\ \E f1 \in SeqsUpTo(ApiBlocks, MaxApiBlocks),
          f2 \in {<<>>} \cup {<<Content(b)>> : b \in SeqsUpTo(ApiBlocks, MaxApiBlocks)} :
          files = (ProjA \o <<"tc", "t1.yml">> :>
                      Content(<<TestBlock(ApiStep("s1", "a1"))>>))
                  @@ (ProjA \o <<"api", "f1.yml">> :> Content(f1))
                  @@ OptFile(ProjA \o <<"api", "f2.yml">>, f2)
    /\ input = NoInput
    /\ InitLoader

NextApi ==
    \/ CallLoadTests(ProjA \o <<"tc">>)
    \/ LoadProjectTests
    \/ LoadTestFile
    \/ ReturnLoadTests

SpecApi == InitApi /\ [][NextApi]_vars

ApiFiles == load_folder_files(join(project_mapping["PWD"], <<"api">>))

\* The blocks of the api files, in the order of discovery.
RECURSIVE BlocksOf(_, _)
BlocksOf(file_list, i) ==
    IF i > Len(file_list) THEN <<>>
    ELSE files[file_list[i]].blocks \o BlocksOf(file_list, i + 1)

ApiItems == BlocksOf(ApiFiles, 1)

ApiFolderWellFormed ==
    /\ \A i \in 1..Len(ApiFiles) : check_format(files[ApiFiles[i]])
    /\ \A i \in 1..Len(ApiItems) : ApiItems[i].good

LastWithId(id) ==
    CHOOSE i \in 1..Len(ApiItems) :
       /\ ApiItems[i].api.id = id
       /\ \A j \in (i + 1)..Len(ApiItems) : ApiItems[j].api.id # id

\* C8: an api id met more than once never makes load_api_folder fail: when
\* the api files are well-formed the project is loaded, the cache holds one
\* entry per distinct id, and the entry of an id is the definition of the
\* last block with that id in the order of discovery.
C8_LastDefinitionWins ==
    /\ (result.op = "load_tests" /\ result.at = "project") => ~ApiFolderWellFormed
    /\ pc = "files" =>
          /\ ApiFolderWellFormed
          /\ DOMAIN tests_def_mapping.api
                = {ApiItems[i].api.id : i \in 1..Len(ApiItems)}
          /\ \A id \in DOMAIN tests_def_mapping.api :
                DeepValue(tests_def_mapping.api[id])
                   = [id |-> id, val |-> ApiItems[LastWithId(id)].api.val,
                      request |-> ApiItems[LastWithId(id)].api.req]

\* The api folder was loaded; id a1 is defined in both files, differently.
C8_Witness ==
    /\ pc = "files"
    /\ Len(ApiFiles) = 2
    /\ \E i \in 1..Len(files[ApiFiles[1]].blocks),
          j \in 1..Len(files[ApiFiles[2]].blocks) :
          /\ files[ApiFiles[1]].blocks[i].api.id = "a1"
          /\ files[ApiFiles[2]].blocks[j].api.id = "a1"
          /\ files[ApiFiles[1]].blocks[i] # files[ApiFiles[2]].blocks[j]

(***************************************************************************)
(* load_locust_tests                                                       *)
(***************************************************************************)
Weighted(step, w) == [step EXCEPT !.has = @ \cup {"weight"}, !.weight = w]

LocustBlocks ==
    { ConfigBlock("name" :> <<"x">>),
      TestBlock(DirectStep("d1")),
      TestBlock(Weighted(ApiStep("s1", "a1"), MaxWeight)),
      OtherBlock,
      BadBlock }
    \cup {TestBlock(Weighted(DirectStep("d2"), w)) : w \in 0..MaxWeight}

LocustFile == ProjA \o <<"tc", "t1.yml">>

\* Project a with a locust file of drawn blocks.
InitLocust ==
    /\ cwd = W
    /\ anchors = {ProjA}
    /\ \E b \in SeqsUpTo(LocustBlocks, MaxLocustBlocks) :
          files = (LocustFile :> Content(b)) @@ FilesA
    /\ input = NoInput
    /\ InitLoader

NextLocust ==
    \/ \E path \in {LocustFile, <<"nowhere.yml">>} : CallLoadLocustTests(path)
    \/ LoadProjectTests
    \/ LocustAssemble

SpecLocust == InitLocust /\ [][NextLocust]_vars

LocustReturned == result.op = "load_locust_tests" /\ result.status = "ok"

\* The "test" blocks of the file that was loaded
LocustTests == TestBlocks(files[abspath(result.arg)].blocks)

WeightOf(step) == IF "weight" \in step.has THEN step.weight ELSE 1

\* The sum of the weights of the first n test blocks
RECURSIVE WeightSum(_, _)
WeightSum(tests, n) ==
    IF n = 0 THEN 0 ELSE WeightSum(tests, n - 1) + WeightOf(tests[n].step)

\* A step as it was before load_teststep attached a definition to it
Detached(step) ==
    [step EXCEPT !.has = @ \ {"api_def", "testcase_def"}, !.api_def = <<>>,
                 !.testcase_def = <<>>]

\* C9: in the tests of load_locust_tests the j-th "test" block of the file,
\* of weight w (an integer >= 0, 1 when the block has none), fills the w
\* places after those of the blocks before it, each place holding the one
\* resolved step of the block; load_teststep was called once per block.
C9_WeightedReplication ==
    LocustReturned =>
       /\ Len(result.val.tests) = WeightSum(LocustTests, Len(LocustTests))
       /\ calls.step = Len(LocustTests)
       /\ \A j \in 1..Len(LocustTests) :
             \A k \in 1..WeightOf(LocustTests[j].step) :
                LET at == WeightSum(LocustTests, j - 1)
                IN  /\ Detached(result.val.tests[at + k]) = LocustTests[j].step
                    /\ result.val.tests[at + k] = result.val.tests[at + 1]

\* A block of weight 2 and a block after it were replicated.
C9_Witness ==
    /\ LocustReturned
    /\ Len(LocustTests) >= 2
    /\ WeightOf(LocustTests[1].step) = 2
    /\ WeightOf(LocustTests[2].step) >= 1
    /\ LocustTests[1].step # LocustTests[2].step

(***************************************************************************)
(* Direct calls of locate_file                                             *)
(***************************************************************************)
StartPaths ==
    { ProjA \o <<"tc">>, ProjA \o <<"tc", "t1.yml">>, ProjB \o <<"tc">>, ProjB, W,
      Root, Outside, <<"a", "tc">>, <<"a", "tc", "t1.yml">>, <<"b">>, <<"tc">>,
      <<"sub.yml">>, <<"nowhere">>, <<>> }

\* The files of project a; a debugtalk.py in any of the directories; the
\* working directory at the root, above the projects, or in project a.
InitLocate ==
    /\ cwd \in {Root, W, ProjA}
    /\ anchors \in SUBSET {Root, W, ProjA, ProjB, Outside}
    /\ files = FilesA
    /\ \E p \in StartPaths : input = [NoInput EXCEPT !.kind = "path", !.path = p]
    /\ InitLoader

NextLocate ==
    \/ CallLocateFile
    \/ LocateStep

SpecLocate == InitLocate /\ [][NextLocate]_vars

\* The directory the search starts in
StartDir == abspath(IF isfile(loc.start) THEN dirname(loc.start) ELSE loc.start)

\* The directories from d upward, to the working directory or the root
RECURSIVE Chain(_)
Chain(d) == IF d \in {cwd, Root} THEN <<d>> ELSE <<d>> \o Chain(Front(d))

\* The first place of chain with a debugtalk.py, 0 if there is none
FirstAnchor(chain) ==
    IF \E i \in 1..Len(chain) : chain[i] \in anchors
    THEN CHOOSE i \in 1..Len(chain) :
            chain[i] \in anchors /\ \A j \in 1..(i - 1) : chain[j] \notin anchors
    ELSE 0

\* C10: locate_file ends after looking into no more directories than the
\* chain from the start directory up to the working directory or the root
\* has; it looks into the directories of that chain in order, returns the
\* file of the first one that has it, and raises FileNotFound when none has.
C10_FirstAnchorOnChain ==
    (loc.status # "" /\ exists(loc.start)) =>
       LET chain == Chain(StartDir)
           n == FirstAnchor(chain)
       IN  /\ Len(loc.inspected) <= Len(chain)
           /\ \A i \in 1..Len(loc.inspected) : loc.inspected[i] = chain[i]
           /\ loc.status # "running" =>
                 IF n = 0
                 THEN loc.status = "FileNotFound" /\ loc.inspected = chain
                 ELSE /\ loc.status = "returned"
                      /\ loc.ret = chain[n] \o <<"debugtalk.py">>
                      /\ Len(loc.inspected) = n

(***************************************************************************)
(* load_tests and load_locust_tests in one process                         *)
(***************************************************************************)
LocustPaths == {ProjA \o <<"tc", "t1.yml">>, ProjB \o <<"tc", "t1.yml">>,
                <<"nowhere.yml">>}

NextContext ==
    \/ \E path \in LoadPaths : CallLoadTests(path)
    \/ \E path \in LocustPaths : CallLoadLocustTests(path)
    \/ LoadProjectTests
    \/ LoadTestFile
    \/ ReturnLoadTests
    \/ LocustAssemble

SpecContext == Init /\ [][NextContext]_vars

\* project_mapping has its three keys and tests_def_mapping["api"] holds the
\* definitions of the api folder of the project.
ContextPopulated ==
    /\ {"PWD", "functions", "env"} \subseteq DOMAIN project_mapping
    /\ DOMAIN tests_def_mapping.api = {ApiItems[i].api.id : i \in 1..Len(ApiItems)}
    /\ \A id \in DOMAIN tests_def_mapping.api :
          DeepValue(tests_def_mapping.api[id])
             = [id |-> id, val |-> ApiItems[LastWithId(id)].api.val,
                request |-> ApiItems[LastWithId(id)].api.req]

\* A load is past its call of load_project_tests, or has returned
PastProject ==
    \/ pc \in {"files", "locust"}
    \/ result.op \in {"load_tests", "load_locust_tests"} /\ result.status = "ok"

\* C11: in a run of load_tests or load_locust_tests every step that calls
\* load_teststep starts and ends with the project context populated
\* (PWD, functions, env, and the api folder's definitions) by the one call of
\* load_project_tests of this run; a run past that call, or returned, has
\* called load_project_tests exactly once.
C11_ContextBeforeSteps ==
    /\ [](PastProject => calls.project = 1)
    /\ [][calls'.step > calls.step =>
             /\ ContextPopulated
             /\ ContextPopulated'
             /\ calls.project = 1
             /\ calls'.project = 1]_vars

\* The second load of the process, a load_locust_tests, returned after it
\* called load_teststep.
C11_Witness ==
    /\ loads = 2
    /\ result.op = "load_locust_tests"
    /\ result.status = "ok"
    /\ calls.step >= 1
    /\ ContextPopulated

(***************************************************************************)
(* Testcases that reference each other                                     *)
(***************************************************************************)
SubFile == ProjA \o <<"sub.yml">>

\* a/tc/t1.yml reaches a/sub.yml; a/sub.yml leads back to itself, or to
\* a/tc/t1.yml, or nowhere, or fails before its reference is reached.
CycleT1 ==
    { Content(<<TestBlock(TestcaseStep("s1", <<"sub.yml">>))>>),
      Content(<<ConfigBlock("name" :> <<"x">>), TestBlock(ApiStep("s0", "a1")),
                TestBlock(TestcaseStep("s1", <<"sub.yml">>))>>),
      Content(<<TestBlock(DirectStep("d"))>>) }

CycleSub ==
    { Content(<<TestBlock(TestcaseStep("r", <<"sub.yml">>))>>),
      Content(<<TestBlock(DirectStep("n")),
                TestBlock(TestcaseStep("r", <<"sub.yml">>))>>),
      Content(<<TestBlock(TestcaseStep("r", <<"tc", "t1.yml">>))>>),
      Content(<<TestBlock(DirectStep("n"))>>),
      Content(<<BadBlock, TestBlock(TestcaseStep("r", <<"sub.yml">>))>>),
      Content(<<TestBlock(ApiStep("n", "nope")),
                TestBlock(TestcaseStep("r", <<"sub.yml">>))>>) }

InitCycle ==
    /\ cwd = W
    /\ anchors = {ProjA}
    /\ \E t1 \in CycleT1, t2 \in T2Choices, sub \in CycleSub :
          files = (ProjA \o <<"api", "f1.yml">> :> Content(<<ApiBlock(ApiA1)>>))
                  @@ (ProjA \o <<"tc", "t1.yml">> :> t1)
                  @@ OptFile(ProjA \o <<"tc", "t2.yml">>, t2)
                  @@ (SubFile :> sub)
    /\ input = NoInput
    /\ InitLoader

NextCycle ==
    \/ \E path \in {ProjA \o <<"tc">>, SubFile} : CallLoadTests(path)
    \/ LoadProjectTests
    \/ LoadTestFile
    \/ ReturnLoadTests

SpecCycle == InitCycle /\ [][NextCycle]_vars

\* A block that load_testcase passes without a nested load and without an
\* exception
Harmless(b) ==
    /\ b.good
    /\ b.key = "test" =>
          IF "api" \in b.step.has THEN b.step.api \in DOMAIN tests_def_mapping.api
          ELSE "func" \in b.step.has \/ "testcase" \notin b.step.has

\* Block i of the blocks is a testcase reference that load_testcase reaches
ReferenceAt(blocks, i) ==
    /\ blocks[i].good
    /\ blocks[i].key = "test"
    /\ blocks[i].step.has \cap {"api", "func", "testcase"} = {"testcase"}
    /\ \A j \in 1..(i - 1) : Harmless(blocks[j])

\* Loading file p makes load_teststep load file q
Edge(p, q) ==
    /\ p \in DOMAIN files
    /\ Last(p) \in YamlNames
    /\ check_format(files[p])
    /\ \E i \in 1..Len(files[p].blocks) :
          /\ ReferenceAt(files[p].blocks, i)
          /\ join(project_mapping["PWD"], files[p].blocks[i].step.testcase) = q

\* q is reached from p by n references or fewer, and at least one
RECURSIVE Reach(_, _, _)
Reach(p, q, n) ==
    /\ n > 0
    /\ \/ Edge(p, q)
       \/ \E r \in DOMAIN files : Edge(p, r) /\ Reach(r, q, n - 1)

\* The references of file p lead back to p
OnCycle(p) == Reach(p, p, Cardinality(DOMAIN files))

\* The number of nested loads of the files that lie on a cycle
RECURSIVE CycleRefs(_)
CycleRefs(S) ==
    IF S = {} THEN 0
    ELSE LET p == CHOOSE x \in S : TRUE
         IN  (IF OnCycle(p) THEN calls.ref[p] ELSE 0) + CycleRefs(S \ {p})

\* C12: once load_teststep has started the nested load of a file whose
\* references lead back to it, the load never returns: the nested loads go
\* on as deep as the interpreter lets them and the load ends in
\* RecursionError; no file of the cycle is ever stored in tests_def_mapping,
\* whose entry is written only after the nested load has returned.
C12_NoCycleGuard ==
    (\E p \in DOMAIN calls.ref : OnCycle(p)) =>
       /\ result.status = "RecursionError"
       /\ CycleRefs(DOMAIN calls.ref) >= MaxDepth
       /\ \A p \in DOMAIN calls.ref :
             OnCycle(p) => /\ p \notin DOMAIN calls.memo
                           /\ p \notin DOMAIN tests_def_mapping.paths

\* A load went around the cycle a/tc/t1.yml -> a/sub.yml -> a/tc/t1.yml.
C12_Witness ==
    /\ result.op = "load_tests"
    /\ result.status = "RecursionError"
    /\ OnCycle(SubFile)
    /\ OnCycle(ProjA \o <<"tc", "t1.yml">>)
    /\ Count(calls.ref, SubFile) >= 2
    /\ Count(calls.ref, ProjA \o <<"tc", "t1.yml">>) >= 1

====
